---- MODULE Spec2Model ----
(***************************************************************************)
(* Model of the WordPress client library (lib/wordpress, kept here as      *)
(* src/unnamed/part_000) and of the two page renderers that call it        *)
(* (src/app/page.js, src/app/category/[slug]/page.js).                     *)
(*                                                                         *)
(* JavaScript values are modelled by records of one shape per type:        *)
(*   number            [nan, n]        NaN is [nan |-> TRUE, n |-> 0]      *)
(*   number|undefined  [def, nan, n]                                       *)
(*   string|undefined  [def, s]        s a sequence of one-character       *)
(*                                     strings; header.get()'s null and a  *)
(*                                     missing property are def = FALSE    *)
(***************************************************************************)
EXTENDS Integers, Sequences, FiniteSets

VARIABLES
    content,     \* text spec: the HTML string handed to a text helper
    maxLength,   \* text spec: createExcerpt's second argument
    op,          \* text spec: the helper that ran last ("none" before any)
    textOut,     \* text spec: string returned by stripHtml / createExcerpt
    minutes,     \* text spec: number returned by calculateReadingTime
    pc,          \* client: where the running accessor / render stands
    render,      \* client: "none" (accessor called directly), "home", "category"
    args,        \* client: getPosts' params after destructuring defaults
    slug,        \* client: slug argument of the by-slug accessors / CategoryPage
    searchPage,  \* client: searchParams.page handed to the page render
    category,    \* client: CategoryPage's local `category`
    requests,    \* client: upstream HTTP requests issued by the running operation
    resp,        \* client: the upstream outcome the pending fetch produced
    result       \* client: what the accessor returned (or that it threw)

textVars == <<content, maxLength, op, textOut, minutes>>
clientVars == <<pc, render, args, slug, searchPage, category, requests, resp, result>>
vars == <<content, maxLength, op, textOut, minutes,
          pc, render, args, slug, searchPage, category, requests, resp, result>>

(***************************************************************************)
(* Bounds of the model.                                                    *)
(***************************************************************************)
MaxTextLen == 5      \* longest enumerated content string
MaxExcerptLen == 3   \* largest enumerated maxLength
MaxNumStrLen == 2    \* longest enumerated ?page= string
MaxItems == 2        \* longest enumerated JSON array body
MaxPage == 2         \* largest page number / page size passed to getPosts directly

(***************************************************************************)
(* Program constants.                                                      *)
(***************************************************************************)
WordsPerMinute == 200
DefaultMaxLength == 150
DefaultPerPage == 9
DefaultPage == 1
PagePerPage == 9

(***************************************************************************)
(* Generic helpers.                                                        *)
(***************************************************************************)
MinOf(S) == CHOOSE x \in S : \A y \in S : x <= y
MaxOf(S) == CHOOSE x \in S : \A y \in S : y <= x

SeqsUpTo(A, n) == UNION {[1..k -> A] : k \in 0..n}

\* JavaScript numbers.
Num(n) == [nan |-> FALSE, n |-> n]
NaN == [nan |-> TRUE, n |-> 0]
\* number | undefined
Undef == [def |-> FALSE, nan |-> FALSE, n |-> 0]
Some(v) == [def |-> TRUE, nan |-> v.nan, n |-> v.n]
Unwrap(o) == [nan |-> o.nan, n |-> o.n]
\* string | undefined (| null)
NoStr == [def |-> FALSE, s |-> <<>>]
Str(s) == [def |-> TRUE, s |-> s]

\* ECMAScript WhiteSpace / LineTerminator characters that \s and trim() match.
WhiteSpace == {" ", "\t", "\n"}

(***************************************************************************)
(* String.prototype.replace(/<[^>]*>/g, ''): repeatedly find the leftmost  *)
(* match at or after the end of the previous one, copy the text before it  *)
(* and drop the match.                                                     *)
(***************************************************************************)
\* Index of the '>' ending a match that starts at the '<' at i; 0 when the
\* pattern does not match at i ([^>]* cannot cross a '>').
TagEnd(s, i) ==
    LET C == {j \in (i + 1)..Len(s) : s[j] = ">"}
    IN IF C = {} THEN 0 ELSE MinOf(C)

\* Start of the leftmost match at or after `from`; 0 when there is none.
NextTag(s, from) ==
    LET C == {i \in from..Len(s) : s[i] = "<" /\ TagEnd(s, i) # 0}
    IN IF C = {} THEN 0 ELSE MinOf(C)

ReplaceStep(s, st) ==
    IF st.done THEN st
    ELSE LET i == NextTag(s, st.from)
         IN IF i = 0
            THEN [from |-> Len(s) + 1, out |-> st.out \o SubSeq(s, st.from, Len(s)),
                  done |-> TRUE]
            ELSE [from |-> TagEnd(s, i) + 1, out |-> st.out \o SubSeq(s, st.from, i - 1),
                  done |-> FALSE]

\* Mutant: the regular expression without its g flag replaces the first match only.
ReplaceTagsFirstOnly(s) ==
    LET i == NextTag(s, 1)
    IN IF i = 0 THEN s
       ELSE SubSeq(s, 1, i - 1) \o SubSeq(s, TagEnd(s, i) + 1, Len(s))

\* The replace loop: ReplaceStep applied until it says done, at most n times.
\* The iteration count is split in halves, each half finished (its `done`
\* read) before the next begins.
RECURSIVE ReplaceLoop(_, _, _)
ReplaceLoop(s, st, n) ==
    IF st.done \/ n = 0 THEN st
    ELSE IF n = 1 THEN ReplaceStep(s, st)
    ELSE LET mid == ReplaceLoop(s, st, n \div 2)
         IN IF mid.done THEN mid ELSE ReplaceLoop(s, mid, n - (n \div 2))

ReplaceTags(s) ==
    ReplaceLoop(s, [from |-> 1, out |-> <<>>, done |-> FALSE], Len(s) + 1).out

stripHtml(html) == ReplaceTags(html)

(***************************************************************************)
(* String.prototype.split(/\s+/): the separators are the maximal runs of   *)
(* whitespace; the pieces before, between and after them are returned,     *)
(* empty pieces included.                                                  *)
(***************************************************************************)
NextWs(s, from) ==
    LET C == {i \in from..Len(s) : s[i] \in WhiteSpace}
    IN IF C = {} THEN 0 ELSE MinOf(C)

\* Last index of the whitespace run that starts at i.
WsEnd(s, i) ==
    LET C == {j \in i..Len(s) : s[j] \notin WhiteSpace}
    IN IF C = {} THEN Len(s) ELSE MinOf(C) - 1

SplitStep(s, st) ==
    IF st.done THEN st
    ELSE LET i == NextWs(s, st.from)
         IN IF i = 0
            THEN [from |-> Len(s) + 1,
                  pieces |-> Append(st.pieces, SubSeq(s, st.from, Len(s))),
                  done |-> TRUE]
            ELSE [from |-> WsEnd(s, i) + 1,
                  pieces |-> Append(st.pieces, SubSeq(s, st.from, i - 1)),
                  done |-> FALSE]

\* The split loop, run like the replace loop.
RECURSIVE SplitLoop(_, _, _)
SplitLoop(s, st, n) ==
    IF st.done \/ n = 0 THEN st
    ELSE IF n = 1 THEN SplitStep(s, st)
    ELSE LET mid == SplitLoop(s, st, n \div 2)
         IN IF mid.done THEN mid ELSE SplitLoop(s, mid, n - (n \div 2))

SplitWhitespace(s) ==
    SplitLoop(s, [from |-> 1, pieces |-> <<>>, done |-> FALSE], Len(s) + 1).pieces

\* Math.ceil(a / b) for a >= 0, b > 0.
CeilDiv(a, b) == (a + b - 1) \div b

calculateReadingTime(c) ==
    LET text == ReplaceTags(c)
        wordCount == Len(SplitWhitespace(text))
    IN CeilDiv(wordCount, WordsPerMinute)

\* String.prototype.trim(): whitespace removed from both ends.
Trim(s) ==
    LET C == {i \in 1..Len(s) : s[i] \notin WhiteSpace}
    IN IF C = {} THEN <<>> ELSE SubSeq(s, MinOf(C), MaxOf(C))

\* String.prototype.substring(0, n) for a number n >= 0.
Substring0(s, n) == SubSeq(s, 1, IF n < Len(s) THEN n ELSE Len(s))

Ellipsis == <<".", ".", ".">>

\* Mutant: the excerpt is cut but not trimmed.
createExcerptNoTrim(c, m) ==
    LET text == stripHtml(c)
        max == IF m.def THEN m.n ELSE DefaultMaxLength
    IN IF Len(text) <= max THEN text
       ELSE Substring0(text, max) \o Ellipsis

createExcerpt(c, m) ==
    LET text == stripHtml(c)
        max == IF m.def THEN m.n ELSE DefaultMaxLength
    IN IF Len(text) <= max THEN text
       ELSE Trim(Substring0(text, max)) \o Ellipsis

(***************************************************************************)
(* Inputs of the text specification.                                       *)
(***************************************************************************)
TextChars == {"<", ">", "a", " ", "&"}

\* String.prototype.repeat
Repeat(w, n) == [i \in 1..(n * Len(w)) |-> w[((i - 1) % Len(w)) + 1]]

Word == <<"w", "o", "r", "d", " ">>
\* "<p>" + "word ".repeat(n) + "</p>"
Paragraph(n) == <<"<", "p", ">">> \o Repeat(Word, n) \o <<"<", "/", "p", ">">>

Contents ==
    SeqsUpTo(TextChars, MaxTextLen)
        \cup {Paragraph(n) : n \in {WordsPerMinute - 1, WordsPerMinute, 2 * WordsPerMinute}}

MaxLengths == {Undef} \cup {Some(Num(n)) : n \in 0..MaxExcerptLen}

(***************************************************************************)
(* The client at rest: no accessor running, nothing requested or returned. *)
(***************************************************************************)
NoArgs == [page |-> Num(0), perPage |-> Num(0), categories |-> Undef, search |-> NoStr]
NoBody == [kind |-> "none", items |-> <<>>]
NoResp == [fetch |-> "none", ok |-> FALSE, totalPagesHdr |-> NoStr, totalHdr |-> NoStr,
           body |-> NoBody]
NoItem == [kind |-> "none", id |-> 0]
NoResult == [acc |-> "none", threw |-> FALSE, posts |-> NoBody, totalPages |-> Num(0),
             totalPosts |-> Num(0), currentPage |-> Num(0), item |-> NoItem]

ClientIdle ==
    /\ pc = "idle"
    /\ render = "none"
    /\ args = NoArgs
    /\ slug = <<>>
    /\ searchPage = NoStr
    /\ category = NoItem
    /\ requests = <<>>
    /\ resp = NoResp
    /\ result = NoResult

(***************************************************************************)
(* Numbers and strings: parseInt(string) and Number.prototype.toString().  *)
(***************************************************************************)
Digits == <<"0", "1", "2", "3", "4", "5", "6", "7", "8", "9">>
DigitChars == {Digits[i] : i \in 1..10}
DigitVal(c) == (CHOOSE i \in 1..10 : Digits[i] = c) - 1

\* Value of a sequence of decimal digits.
RECURSIVE DecValue(_)
DecValue(ds) ==
    IF ds = <<>> THEN 0
    ELSE 10 * DecValue(SubSeq(ds, 1, Len(ds) - 1)) + DigitVal(ds[Len(ds)])

\* parseInt(s) with no radix, on strings without a 0x prefix: leading
\* whitespace is skipped, a sign is read, then the longest run of digits;
\* NaN when that run is empty. Whatever follows the digits is ignored.
ParseInt(s) ==
    LET nonWs == {i \in 1..Len(s) : s[i] \notin WhiteSpace}
        t == IF nonWs = {} THEN <<>> ELSE SubSeq(s, MinOf(nonWs), Len(s))
        signed == t # <<>> /\ t[1] \in {"-", "+"}
        sign == IF t # <<>> /\ t[1] = "-" THEN -1 ELSE 1
        u == IF signed THEN SubSeq(t, 2, Len(t)) ELSE t
        nonDigit == {i \in 1..Len(u) : u[i] \notin DigitChars}
        ds == IF nonDigit = {} THEN u ELSE SubSeq(u, 1, MinOf(nonDigit) - 1)
    IN IF ds = <<>> THEN NaN ELSE Num(sign * DecValue(ds))

RECURSIVE DecDigits(_)
DecDigits(n) ==
    IF n < 10 THEN <<Digits[n + 1]>>
    ELSE Append(DecDigits(n \div 10), Digits[(n % 10) + 1])

\* Number.prototype.toString() of an integer or NaN.
NumberToString(v) ==
    IF v.nan THEN <<"N", "a", "N">>
    ELSE IF v.n < 0 THEN <<"-">> \o DecDigits(-v.n)
    ELSE DecDigits(v.n)

\* a || b on string | undefined | null: the empty string is falsy too.
OrDefault(o, d) == IF o.def /\ o.s # <<>> THEN o.s ELSE d

(***************************************************************************)
(* Upstream outcomes. A fetch either rejects (network, DNS) or resolves    *)
(* with a status, headers and a body; response.json() rejects on a         *)
(* malformed body and otherwise yields whatever JSON value the body holds. *)
(*   body.kind: "malformed", "null", "object" (a non-array object),        *)
(*              "string" (a non-empty JSON string), "array" (of records,   *)
(*              named by their ids in body.items)                          *)
(***************************************************************************)
RecordIds == {1, 2}

Bodies ==
    {[kind |-> k, items |-> <<>>] : k \in {"malformed", "null", "object", "string"}}
        \cup {[kind |-> "array", items |-> xs] : xs \in SeqsUpTo(RecordIds, MaxItems)}

EmptyArray == [kind |-> "array", items |-> <<>>]

\* Characters of the enumerated ?page= strings.
NumChars == {"0", "3", "a", "-"}
\* Values of X-WP-Total / X-WP-TotalPages: absent, empty, numbers, and not numbers.
HeaderValues ==
    {NoStr} \cup {Str(s) : s \in {<<>>, <<"0">>, <<"3">>, <<"a">>, <<"3", "a">>}}

FetchRejected ==
    [fetch |-> "rejected", ok |-> FALSE, totalPagesHdr |-> NoStr, totalHdr |-> NoStr,
     body |-> NoBody]
NotOk ==
    [fetch |-> "resolved", ok |-> FALSE, totalPagesHdr |-> NoStr, totalHdr |-> NoStr,
     body |-> [kind |-> "object", items |-> <<>>]]

\* What the posts listing can answer: the pagination headers vary.
PostsResponses ==
    {FetchRejected, NotOk}
        \cup {[fetch |-> "resolved", ok |-> TRUE, totalPagesHdr |-> tp, totalHdr |-> tt,
               body |-> b] : tp \in HeaderValues, tt \in HeaderValues, b \in Bodies}

\* What the other endpoints can answer: no header of theirs is read.
ListResponses ==
    {FetchRejected, NotOk}
        \cup {[fetch |-> "resolved", ok |-> TRUE, totalPagesHdr |-> NoStr,
               totalHdr |-> NoStr, body |-> b] : b \in Bodies}

(***************************************************************************)
(* getPosts                                                                *)
(***************************************************************************)
\* const { page = 1, perPage = 9, categories = '', search = '' } = params;
\* an absent categories / search stands for the default ''.
Destructure(params) ==
    [page |-> IF params.page.def THEN Unwrap(params.page) ELSE Num(DefaultPage),
     perPage |-> IF params.perPage.def THEN Unwrap(params.perPage)
                 ELSE Num(DefaultPerPage),
     categories |-> params.categories,
     search |-> params.search]

\* if (categories): '' (absent), 0 and NaN are falsy.
CategoriesGiven(a) == a.categories.def /\ ~a.categories.nan /\ a.categories.n # 0
\* if (search)
SearchGiven(a) == a.search.def /\ a.search.s # <<>>

Param(k, v) == [k |-> k, v |-> v]
TrueStr == <<"t", "r", "u", "e">>

\* Mutant: page and per_page take each other's value.
PostsQuerySwapped(a) ==
    <<Param("page", NumberToString(a.perPage)),
      Param("per_page", NumberToString(a.page)),
      Param("_embed", TrueStr)>>
        \o (IF CategoriesGiven(a)
            THEN <<Param("categories", NumberToString(Unwrap(a.categories)))>> ELSE <<>>)
        \o (IF SearchGiven(a) THEN <<Param("search", a.search.s)>> ELSE <<>>)

\* The URLSearchParams getPosts builds, in order.
PostsQuery(a) ==
    <<Param("page", NumberToString(a.page)),
      Param("per_page", NumberToString(a.perPage)),
      Param("_embed", TrueStr)>>
        \o (IF CategoriesGiven(a)
            THEN <<Param("categories", NumberToString(Unwrap(a.categories)))>> ELSE <<>>)
        \o (IF SearchGiven(a) THEN <<Param("search", a.search.s)>> ELSE <<>>)

Request(endpoint, q) == [endpoint |-> endpoint, query |-> q]

PageResult(posts, totalPages, totalPosts, currentPage) ==
    [acc |-> "getPosts", threw |-> FALSE, posts |-> posts, totalPages |-> totalPages,
     totalPosts |-> totalPosts, currentPage |-> currentPage, item |-> NoItem]

Thrown(acc) ==
    [acc |-> acc, threw |-> TRUE, posts |-> NoBody, totalPages |-> Num(0),
     totalPosts |-> Num(0), currentPage |-> Num(0), item |-> NoItem]

\* fetch rejecting, !response.ok (throw new Error) and response.json()
\* rejecting all throw inside the try block.
DecodeFails(r) == r.fetch = "rejected" \/ ~r.ok \/ r.body.kind = "malformed"

\* Mutant: the fallback echoes the requested page.
PostsFallbackEchoPage(a) == PageResult(EmptyArray, Num(1), Num(0), a.page)

\* The catch block's return value.
PostsFallback(a) == PageResult(EmptyArray, Num(1), Num(0), Num(1))

\* The try block's return value.
PostsSuccess(a, r) ==
    PageResult(r.body,
               ParseInt(OrDefault(r.totalPagesHdr, <<"1">>)),
               ParseInt(OrDefault(r.totalHdr, <<"0">>)),
               a.page)

\* The try block: throws, or returns.
PostsTry(a, r) == IF DecodeFails(r) THEN Thrown("getPosts") ELSE PostsSuccess(a, r)

getPosts(a, r) ==
    LET t == PostsTry(a, r)
    IN IF t.threw THEN PostsFallback(a) ELSE t

(***************************************************************************)
(* getPostBySlug, getCategoryBySlug, getCategories                         *)
(***************************************************************************)
Null == [kind |-> "null", id |-> 0]
Record(id) == [kind |-> "record", id |-> id]
Char == [kind |-> "char", id |-> 0]

ItemResult(acc, item) ==
    [acc |-> acc, threw |-> FALSE, posts |-> NoBody, totalPages |-> Num(0),
     totalPosts |-> Num(0), currentPage |-> Num(0), item |-> item]

ListResult(acc, list) ==
    [acc |-> acc, threw |-> FALSE, posts |-> list, totalPages |-> Num(0),
     totalPosts |-> Num(0), currentPage |-> Num(0), item |-> NoItem]

\* Mutant: the last element instead of the first.
FirstOrNullLast(b) ==
    IF b.kind = "array" /\ b.items # <<>> THEN Record(b.items[Len(b.items)])
    ELSE IF b.kind = "string" THEN Char
    ELSE Null

\* x[0] || null for a decoded body x other than null: the first record of a
\* non-empty array, the first character of a string, else undefined || null.
FirstOrNull(b) ==
    IF b.kind = "array" /\ b.items # <<>> THEN Record(b.items[1])
    ELSE IF b.kind = "string" THEN Char
    ELSE Null

\* The try block of a by-slug accessor; null[0] throws a TypeError.
ItemTry(acc, r) ==
    IF DecodeFails(r) \/ r.body.kind = "null" THEN Thrown(acc)
    ELSE ItemResult(acc, FirstOrNull(r.body))

getPostBySlug(r) ==
    LET t == ItemTry("getPostBySlug", r)
    IN IF t.threw THEN ItemResult("getPostBySlug", Null) ELSE t

getCategoryBySlug(r) ==
    LET t == ItemTry("getCategoryBySlug", r)
    IN IF t.threw THEN ItemResult("getCategoryBySlug", Null) ELSE t

\* The try block of getCategories: return await response.json()
CategoriesTry(r) ==
    IF DecodeFails(r) THEN Thrown("getCategories") ELSE ListResult("getCategories", r.body)

getCategories(r) ==
    LET t == CategoriesTry(r)
    IN IF t.threw THEN ListResult("getCategories", EmptyArray) ELSE t

PostBySlugQuery(sl) == <<Param("slug", sl), Param("_embed", TrueStr)>>
CategoriesQuery == <<Param("per_page", <<"1", "0", "0">>)>>
CategoryBySlugQuery(sl) == <<Param("slug", sl)>>


(***************************************************************************)
(* Text specification: a content string and each helper applied to it;     *)
(* the state shows the latest call and what it returned.                   *)
(***************************************************************************)
InitText ==
    /\ content \in Contents
    /\ maxLength = Undef
    /\ op = "none"
    /\ textOut = <<>>
    /\ minutes = 0
    /\ ClientIdle

StripHtmlCall ==
    /\ op' = "stripHtml"
    /\ textOut' = stripHtml(content)
    /\ maxLength' = Undef
    /\ minutes' = 0
    /\ UNCHANGED content
    /\ UNCHANGED clientVars

CreateExcerptCall ==
    \E m \in MaxLengths :
        /\ op' = "createExcerpt"
        /\ maxLength' = m
        /\ textOut' = createExcerpt(content, m)
        /\ minutes' = 0
        /\ UNCHANGED content
        /\ UNCHANGED clientVars

CalculateReadingTimeCall ==
    /\ op' = "calculateReadingTime"
    /\ minutes' = calculateReadingTime(content)
    /\ maxLength' = Undef
    /\ textOut' = <<>>
    /\ UNCHANGED content
    /\ UNCHANGED clientVars

NextText ==
    \/ StripHtmlCall
    \/ CreateExcerptCall
    \/ CalculateReadingTimeCall

SpecText == InitText /\ [][NextText]_vars

(***************************************************************************)
(* Client specification: one accessor call, or one page render, from its   *)
(* start to its end. An accessor issues its request and waits (pc names    *)
(* the accessor); the upstream outcome arrives and the accessor returns    *)
(* (and the render that awaited it runs on to its next await or its end).  *)
(***************************************************************************)
PageStrings == {NoStr} \cup {Str(s) : s \in SeqsUpTo(NumChars, MaxNumStrLen)}
Slugs == {<<"a">>, <<"b", "c">>}
OptPages == {Undef} \cup {Some(Num(n)) : n \in 1..MaxPage}
OptIds == {Undef} \cup {Some(Num(n)) : n \in RecordIds}
Searches == {NoStr, Str(<<>>), Str(<<"q">>)}
DirectParams == [page : OptPages, perPage : OptPages, categories : OptIds, search : Searches]

Init ==
    /\ content = <<>>
    /\ maxLength = Undef
    /\ op = "none"
    /\ textOut = <<>>
    /\ minutes = 0
    /\ ClientIdle

\* getPosts up to its await: destructure, build the query, start the fetch.
StartGetPosts(params) ==
    /\ args' = Destructure(params)
    /\ requests' = Append(requests, Request("posts", PostsQuery(args')))
    /\ pc' = "getPosts"

\* HomePage / CategoryPage: const page = parseInt(searchParams?.page || '1')
RequestedPage(sp) == ParseInt(OrDefault(sp, <<"1">>))

\* What the render shows once getPosts has returned `res`: the empty state,
\* the article grid, or a TypeError (posts.length / posts.map on a non-array).
View(res) ==
    IF res.posts.kind # "array" THEN "error"
    ELSE IF res.posts.items = <<>> THEN "empty"
    ELSE "list"

GetPostsCall ==
    \E params \in DirectParams :
        /\ pc = "idle"
        /\ render' = "none"
        /\ StartGetPosts(params)
        /\ UNCHANGED <<slug, searchPage, category, resp, result>>
        /\ UNCHANGED textVars

HomePage ==
    \E sp \in PageStrings :
        /\ pc = "idle"
        /\ render' = "home"
        /\ searchPage' = sp
        /\ StartGetPosts([page |-> Some(RequestedPage(sp)),
                          perPage |-> Some(Num(PagePerPage)),
                          categories |-> Undef, search |-> NoStr])
        /\ UNCHANGED <<slug, category, resp, result>>
        /\ UNCHANGED textVars

\* Mutant: a failed outcome is retried once, with the same request, before
\* getPosts gives up.
GetPostsSettleRetry ==
    \E r \in PostsResponses :
        /\ pc = "getPosts"
        /\ resp' = r
        /\ IF DecodeFails(r) /\ Len(requests) < 3
           THEN /\ requests' = Append(requests, requests[Len(requests)])
                /\ pc' = "getPosts"
                /\ UNCHANGED result
           ELSE /\ result' = getPosts(args, r)
                /\ pc' = IF render = "none" THEN "returned" ELSE View(result')
                /\ UNCHANGED requests
        /\ UNCHANGED <<render, args, slug, searchPage, category>>
        /\ UNCHANGED textVars

GetPostsSettle ==
    \E r \in PostsResponses :
        /\ pc = "getPosts"
        /\ resp' = r
        /\ result' = getPosts(args, r)
        /\ pc' = IF render = "none" THEN "returned" ELSE View(result')
        /\ UNCHANGED <<render, args, slug, searchPage, category, requests>>
        /\ UNCHANGED textVars

GetPostBySlugCall ==
    \E sl \in Slugs :
        /\ pc = "idle"
        /\ render' = "none"
        /\ slug' = sl
        /\ requests' = Append(requests, Request("posts", PostBySlugQuery(sl)))
        /\ pc' = "getPostBySlug"
        /\ UNCHANGED <<args, searchPage, category, resp, result>>
        /\ UNCHANGED textVars

GetPostBySlugSettle ==
    \E r \in ListResponses :
        /\ pc = "getPostBySlug"
        /\ resp' = r
        /\ result' = getPostBySlug(r)
        /\ pc' = "returned"
        /\ UNCHANGED <<render, args, slug, searchPage, category, requests>>
        /\ UNCHANGED textVars

GetCategoriesCall ==
    /\ pc = "idle"
    /\ render' = "none"
    /\ requests' = Append(requests, Request("categories", CategoriesQuery))
    /\ pc' = "getCategories"
    /\ UNCHANGED <<args, slug, searchPage, category, resp, result>>
    /\ UNCHANGED textVars

GetCategoriesSettle ==
    \E r \in ListResponses :
        /\ pc = "getCategories"
        /\ resp' = r
        /\ result' = getCategories(r)
        /\ pc' = "returned"
        /\ UNCHANGED <<render, args, slug, searchPage, category, requests>>
        /\ UNCHANGED textVars

GetCategoryBySlugCall ==
    \E sl \in Slugs :
        /\ pc = "idle"
        /\ render' = "none"
        /\ slug' = sl
        /\ requests' = Append(requests, Request("categories", CategoryBySlugQuery(sl)))
        /\ pc' = "getCategoryBySlug"
        /\ UNCHANGED <<args, searchPage, category, resp, result>>
        /\ UNCHANGED textVars

CategoryPage ==
    \E sl \in Slugs, sp \in PageStrings :
        /\ pc = "idle"
        /\ render' = "category"
        /\ slug' = sl
        /\ searchPage' = sp
        /\ requests' = Append(requests, Request("categories", CategoryBySlugQuery(sl)))
        /\ pc' = "getCategoryBySlug"
        /\ UNCHANGED <<args, category, resp, result>>
        /\ UNCHANGED textVars

\* getCategoryBySlug returns. Called directly, that is the end. In CategoryPage
\* the render goes on: notFound() on a null category, else getPosts with the
\* category's id (the id property of a string is undefined).
GetCategoryBySlugSettle ==
    \E r \in ListResponses :
        /\ pc = "getCategoryBySlug"
        /\ resp' = r
        /\ result' = getCategoryBySlug(r)
        /\ IF render = "none"
           THEN /\ pc' = "returned"
                /\ UNCHANGED <<args, category, requests>>
           ELSE /\ category' = result'.item
                /\ IF category' = Null
                   THEN /\ pc' = "notFound"
                        /\ UNCHANGED <<args, requests>>
                   ELSE StartGetPosts(
                            [page |-> Some(RequestedPage(searchPage)),
                             perPage |-> Some(Num(PagePerPage)),
                             categories |-> IF category'.kind = "record"
                                            THEN Some(Num(category'.id)) ELSE Undef,
                             search |-> NoStr])
        /\ UNCHANGED <<render, slug, searchPage>>
        /\ UNCHANGED textVars

Next ==
    \/ GetPostsCall
    \/ HomePage
    \/ GetPostsSettle
    \/ GetPostBySlugCall
    \/ GetPostBySlugSettle
    \/ GetCategoriesCall
    \/ GetCategoriesSettle
    \/ GetCategoryBySlugCall
    \/ CategoryPage
    \/ GetCategoryBySlugSettle

Spec == Init /\ [][Next]_vars

(***************************************************************************)
(* Properties of the client (specification Spec).                          *)
(***************************************************************************)
GetPostsReturned == result.acc = "getPosts"
TransportFailure(r) == r.fetch = "rejected" \/ (r.fetch = "resolved" /\ ~r.ok)
ShapeFailure(r) ==
    r.fetch = "resolved" /\ r.ok /\ r.body.kind \in {"malformed", "null", "object", "string"}
Succeeded(r) == r.fetch = "resolved" /\ r.ok /\ r.body.kind # "malformed"

EmptyPage ==
    [acc |-> "getPosts", threw |-> FALSE,
     posts |-> [kind |-> "array", items |-> <<>>],
     totalPages |-> [nan |-> FALSE, n |-> 1],
     totalPosts |-> [nan |-> FALSE, n |-> 0],
     currentPage |-> [nan |-> FALSE, n |-> 1],
     item |-> NoItem]

\* C1: whatever page was requested, a non-success HTTP status makes getPosts
\* return exactly {posts: [], totalPages: 1, totalPosts: 0, currentPage: 1},
\* and no exception reaches the caller.
C1_NonOkGivesEmptyPage ==
    (GetPostsReturned /\ resp.fetch = "resolved" /\ ~resp.ok) => result = EmptyPage

\* C1 witness: getPosts was asked for a page other than 1 and the upstream
\* answered with a non-success status.
C1_Witness ==
    /\ GetPostsReturned
    /\ resp.fetch = "resolved" /\ ~resp.ok
    /\ ~args.page.nan /\ args.page.n > 1

\* The empty / not-found value of each accessor.
Sentinel(acc) ==
    IF acc = "getPosts" THEN EmptyPage
    ELSE IF acc = "getCategories"
         THEN [acc |-> acc, threw |-> FALSE, posts |-> [kind |-> "array", items |-> <<>>],
               totalPages |-> Num(0), totalPosts |-> Num(0), currentPage |-> Num(0),
               item |-> NoItem]
    ELSE [acc |-> acc, threw |-> FALSE, posts |-> NoBody, totalPages |-> Num(0),
          totalPosts |-> Num(0), currentPage |-> Num(0),
          item |-> [kind |-> "null", id |-> 0]]

\* C2: every accessor answers a transport failure and a decoding / shape
\* failure (malformed JSON, null, a non-array) alike, with its empty /
\* not-found value, and never throws.
C2_AllFailuresFolded ==
    (result.acc # "none" /\ (TransportFailure(resp) \/ ShapeFailure(resp)))
        => result = Sentinel(result.acc)

AtLeast(v, k) == ~v.nan /\ v.n >= k

\* C3: every page result has currentPage >= 1, totalPages >= 1 and at most
\* the requested page size of posts.
C3_PageResultInvariant ==
    GetPostsReturned =>
        /\ AtLeast(result.currentPage, 1)
        /\ AtLeast(result.totalPages, 1)
        /\ (result.posts.kind = "array"
               => AtLeast(args.perPage, Len(result.posts.items)))

\* A string that denotes an integer: an optional minus sign, then digits only.
IsNumeric(s) ==
    LET ds == IF s # <<>> /\ s[1] = "-" THEN SubSeq(s, 2, Len(s)) ELSE s
    IN ds # <<>> /\ \A i \in 1..Len(ds) : ds[i] \in DigitChars
NumericValue(s) ==
    IF s[1] = "-" THEN 0 - DecValue(SubSeq(s, 2, Len(s))) ELSE DecValue(s)
\* The number a string input denotes, d when it is absent or not numeric.
NumberOr(o, d) ==
    IF o.def /\ IsNumeric(o.s) THEN [nan |-> FALSE, n |-> NumericValue(o.s)]
    ELSE [nan |-> FALSE, n |-> d]

\* C4: on success totalPosts is the number in X-WP-Total and totalPages the
\* number in X-WP-TotalPages, and 0 and 1 when the header is absent or is
\* not numeric.
C4_TotalsFromHeaders ==
    (GetPostsReturned /\ Succeeded(resp)) =>
        /\ result.totalPosts = NumberOr(resp.totalHdr, 0)
        /\ result.totalPages = NumberOr(resp.totalPagesHdr, 1)

\* C5: the page number the home page and the category page hand to getPosts
\* is the integer the 'page' string denotes, and 1 when that string is
\* absent or not numeric.
C5_PageFromString ==
    (render \in {"home", "category"} /\ args # NoArgs) => args.page = NumberOr(searchPage, 1)

\* The decimal numeral of n >= 0, digit by digit.
IsNumeralOf(s, n) ==
    /\ s # <<>>
    /\ \A i \in 1..Len(s) : s[i] \in DigitChars
    /\ (Len(s) > 1 => s[1] # "0")
    /\ DecValue(s) = n
ValuesOf(q, k) == {q[i].v : i \in {j \in 1..Len(q) : q[j].k = k}}
KeysOf(q) == {q[i].k : i \in 1..Len(q)}
PostsRequests == {i \in 1..Len(requests) : requests[i].endpoint = "posts"}

\* C6: for a page size s > 0 and a page number p >= 1, getPosts issues one
\* request, which carries exactly page=p, per_page=s, _embed=true, plus
\* categories=<id> iff the caller gave a category id and search=<text> iff
\* the caller gave a (non-empty) search text.
C6_ExactQuery ==
    (args # NoArgs /\ AtLeast(args.page, 1) /\ AtLeast(args.perPage, 1)) =>
        /\ Cardinality(PostsRequests) = 1
        /\ LET q == requests[Len(requests)].query
               withCat == args.categories.def
               withSearch == args.search.def /\ args.search.s # <<>>
           IN /\ requests[Len(requests)].endpoint = "posts"
              /\ KeysOf(q) = {"page", "per_page", "_embed"}
                                \cup (IF withCat THEN {"categories"} ELSE {})
                                \cup (IF withSearch THEN {"search"} ELSE {})
              /\ Len(q) = Cardinality(KeysOf(q))
              /\ \A v \in ValuesOf(q, "page") : IsNumeralOf(v, args.page.n)
              /\ \A v \in ValuesOf(q, "per_page") : IsNumeralOf(v, args.perPage.n)
              /\ ValuesOf(q, "_embed") = {<<"t", "r", "u", "e">>}
              /\ \A v \in ValuesOf(q, "categories") : IsNumeralOf(v, args.categories.n)
              /\ \A v \in ValuesOf(q, "search") : v = args.search.s

\* C6 witness: getPosts is waiting for the answer to a request for page 2 of
\* size 1 with both a category id and a search text.
C6_Witness ==
    /\ pc = "getPosts"
    /\ args.page = Num(2) /\ args.perPage = Num(1)
    /\ args.categories.def
    /\ args.search.def /\ args.search.s # <<>>

BySlugReturned == result.acc \in {"getPostBySlug", "getCategoryBySlug"}
NullItem == [kind |-> "null", id |-> 0]

\* C7: a by-slug accessor returns the first element of a non-empty result
\* list, and null both for an empty list and for a failed request.
C7_FirstOrNotFound ==
    BySlugReturned =>
        /\ ~result.threw
        /\ (Succeeded(resp) /\ resp.body.kind = "array" /\ resp.body.items # <<>>)
              => result.item = [kind |-> "record", id |-> resp.body.items[1]]
        /\ (Succeeded(resp) /\ resp.body.kind = "array" /\ resp.body.items = <<>>)
              => result.item = NullItem
        /\ (TransportFailure(resp) \/ resp.body.kind = "malformed")
              => result.item = NullItem

\* C7 witness: getPostBySlug got two different matches back and returned.
C7_Witness ==
    /\ result.acc = "getPostBySlug"
    /\ Succeeded(resp)
    /\ resp.body.kind = "array"
    /\ Len(resp.body.items) = 2
    /\ resp.body.items[1] # resp.body.items[2]

\* C7, the other path: a request that succeeded with zero matches.
C7_WitnessNoMatch ==
    /\ result.acc = "getCategoryBySlug"
    /\ Succeeded(resp)
    /\ resp.body = [kind |-> "array", items |-> <<>>]
    /\ result.item = NullItem

Accessors == {"getPosts", "getPostBySlug", "getCategories", "getCategoryBySlug"}
EndpointOf(acc) == IF acc \in {"getPosts", "getPostBySlug"} THEN "posts" ELSE "categories"

\* C11: nothing is retried. A step in which an accessor is invoked adds one
\* request, to that accessor's endpoint; no other step adds a request, so the
\* step in which the outcome arrives (success, non-success status, transport
\* or decoding failure) ends the accessor with the one request it issued.
C11_OneRequestPerInvocation ==
    [][IF pc' \in Accessors /\ pc' # pc
       THEN /\ Len(requests') = Len(requests) + 1
            /\ SubSeq(requests', 1, Len(requests)) = requests
            /\ requests'[Len(requests')].endpoint = EndpointOf(pc')
       ELSE /\ requests' = requests
            /\ pc' \notin Accessors]_vars

\* C11 witness: getPosts, called directly, has returned after its fetch was
\* rejected, and one request was issued.
C11_Witness ==
    /\ render = "none"
    /\ result.acc = "getPosts"
    /\ resp.fetch = "rejected"
    /\ Len(requests) = 1


CategoryRequests == {i \in 1..Len(requests) : requests[i].endpoint = "categories"}
LookupDone == render = "category" /\ category # NoItem

\* C12: in the category page render the posts request is issued only after
\* the category lookup has returned a category, and it carries that
\* category's id as its categories filter; when the lookup returns not-found
\* the render ends in notFound and no posts request is issued.
C12_PostsOnlyForFoundCategory ==
    render = "category" =>
        /\ PostsRequests # {} =>
              /\ LookupDone /\ category # NullItem
              /\ CategoryRequests = {1} /\ PostsRequests = {2}
              /\ \E v \in ValuesOf(requests[2].query, "categories") :
                    IsNumeralOf(v, category.id)
        /\ (LookupDone /\ category = NullItem) =>
              /\ pc = "notFound"
              /\ PostsRequests = {}
        /\ pc = "notFound" => (LookupDone /\ category = NullItem)

\* The part of C12 that does not depend on what the lookup returned as the
\* category: the order of the two requests, and notFound ending the render
\* with no posts request.
C12_OrderAndNotFound ==
    render = "category" =>
        /\ PostsRequests # {} =>
              /\ LookupDone /\ category # NullItem
              /\ CategoryRequests = {1} /\ PostsRequests = {2}
              /\ category.kind = "record" =>
                    \E v \in ValuesOf(requests[2].query, "categories") :
                        IsNumeralOf(v, category.id)
        /\ (LookupDone /\ category = NullItem) =>
              /\ pc = "notFound"
              /\ PostsRequests = {}
        /\ pc = "notFound" => (LookupDone /\ category = NullItem)


(***************************************************************************)
(* Properties of the text helpers (specification SpecText).                *)
(***************************************************************************)
\* Words of a text: its maximal runs of non-whitespace characters.
WordStarts(s) ==
    {i \in 1..Len(s) : s[i] \notin WhiteSpace /\ (i = 1 \/ s[i - 1] \in WhiteSpace)}
WordCount(s) == Cardinality(WordStarts(s))

\* C8: calculateReadingTime returns ceil(W / 200) for the W words of the
\* tag-stripped text: 2 for 400 words in a <p>, 0 for empty content.
C8_ReadingTimeIsCeilOfWords ==
    op = "calculateReadingTime" =>
        minutes = (WordCount(stripHtml(content)) + 199) \div 200

\* Position j of s lies inside a tag: some '<' at or before j has no '>'
\* between it and j, and a '>' closes it at or after j.
InsideTag(s, j) ==
    /\ \E i \in 1..j : s[i] = "<" /\ \A k \in i..(j - 1) : s[k] # ">"
    /\ \E e \in j..Len(s) : s[e] = ">"
OutsideTags(s) == {j \in 1..Len(s) : ~InsideTag(s, j)}
NoTagLeft(s) == ~\E i \in 1..Len(s) : s[i] = "<" /\ \E j \in (i + 1)..Len(s) : s[j] = ">"

\* C10: stripHtml leaves no '<' that a later '>' follows, so stripping its
\* output again changes nothing; the characters outside tags ('&' of an
\* entity included) are all kept, literally and in order, and nothing else.
C10_StripHtmlRemovesTags ==
    op = "stripHtml" =>
        /\ NoTagLeft(textOut)
        /\ stripHtml(textOut) = textOut
        /\ LET kept == OutsideTags(content)
           IN /\ Len(textOut) = Cardinality(kept)
              /\ \A j \in kept :
                    textOut[Cardinality({i \in kept : i <= j})] = content[j]

\* C10 witness: stripHtml removed a tag from a string with unbalanced angle
\* brackets and an ampersand, and both are still in its output.
C10_Witness ==
    /\ op = "stripHtml"
    /\ Len(textOut) < Len(content)
    /\ \E i \in 1..Len(textOut) : textOut[i] = "&"
    /\ \E i \in 1..Len(textOut) : textOut[i] \in {"<", ">"}

Dots == <<".", ".", ".">>
MaxLengthUsed == IF maxLength.def THEN maxLength.n ELSE 150
Truncated == Len(stripHtml(content)) > MaxLengthUsed
\* The first maxLength characters of the stripped text.
Cut == SubSeq(stripHtml(content), 1, MaxLengthUsed)
EndsWithDots(s) == Len(s) >= 3 /\ SubSeq(s, Len(s) - 2, Len(s)) = Dots
\* b is `s` less the whitespace at its end.
IsRightTrimOf(b, s) ==
    /\ Len(b) <= Len(s)
    /\ b = SubSeq(s, 1, Len(b))
    /\ \A i \in (Len(b) + 1)..Len(s) : s[i] \in WhiteSpace
    /\ (b # <<>> => b[Len(b)] \notin WhiteSpace)
\* b is `s` less the whitespace at its two ends.
IsTrimOf(b, s) ==
    \E lead \in 0..Len(s) :
        /\ \A i \in 1..lead : s[i] \in WhiteSpace
        /\ (lead < Len(s) => s[lead + 1] \notin WhiteSpace)
        /\ IsRightTrimOf(b, SubSeq(s, lead + 1, Len(s)))

====
